---- MODULE Spec2Model ----
(***************************************************************************)
(* A model of the ARTHAX financial-context pipeline:                       *)
(*   - fetch_data_from_mcp: one RPC-style call to the remote profile       *)
(*     service, normalised into a payload or an in-band error dictionary;  *)
(*   - get_full_financial_context_from_mcp_shared: the aggregation of the  *)
(*     six record categories into one context dictionary.                  *)
(* Python dictionaries are sets of <<key, value>> pairs; a JSON value      *)
(* whose Python type matters (dict or list) carries its type in `ty`.      *)
(* Messages built by f-strings are sequences of their fragments.           *)
(***************************************************************************)
EXTENDS Integers, Sequences, FiniteSets, TLC

VARIABLES
    pc,                  \* position of the aggregation call: idle, loop, returned, raised
    user_id,             \* the argument of the aggregation call
    idx,                 \* position of the next tool in tools_to_fetch
    fetched_data,        \* local dict: context key -> payload
    errors,              \* local list of failure messages
    login_required_url,  \* local
    result,              \* the dictionary the aggregation call returned
    raised,              \* the exception that left the aggregation call
    calls,               \* history of fetch_data_from_mcp invocations
    f_pc,                \* position of a single fetch call: idle, done
    f_tool,              \* its tool_name
    f_resp,              \* what the transport gave it
    f_ret,               \* what it returned
    f_exc,               \* the exception raised inside its try block
    f_text,              \* the inner text of the reply, when it was given as text
    w_pc,                \* position of a workflow call or route request: idle, done
    w_name,              \* the workflow that ran
    w_user,              \* its user id
    w_ctx,               \* how its aggregation call ended
    w_gen,               \* what the generative model did when invoked
    w_out,               \* how the workflow ended
    r_resp               \* the HTTP response of the route, when a route ran it

vars == <<pc, user_id, idx, fetched_data, errors, login_required_url, result,
          raised, calls, f_pc, f_tool, f_resp, f_ret, f_exc, f_text,
          w_pc, w_name, w_user, w_ctx, w_gen, w_out, r_resp>>

ctx_vars == <<pc, user_id, idx, fetched_data, errors, login_required_url,
              result, raised, calls>>

fetch_vars == <<f_pc, f_tool, f_resp, f_ret, f_exc, f_text>>

flow_vars == <<w_pc, w_name, w_user, w_ctx, w_gen, w_out, r_resp>>

-----------------------------------------------------------------------------
(* Bounds of the model *)

MaxUrl == 2         \* distinct login URLs the remote service may hand out
MaxSalary == 2      \* distinct salary values in a net-worth payload

-----------------------------------------------------------------------------
(* Python values *)

PyNone == "<None>"

Dict(pairs) == [ty |-> "dict", v |-> pairs]
List(items) == [ty |-> "list", v |-> items]

HasKey(d, k) == \E p \in d : p[1] = k
Get(d, k, default) == IF HasKey(d, k) THEN (CHOOSE p \in d : p[1] = k)[2] ELSE default
Put(d, k, val) == {p \in d : p[1] # k} \cup {<<k, val>>}
Keys(d) == {p[1] : p \in d}

\* Python truthiness of a dict or a list: non-empty
Truthy(x) == x.v # {}

RECURSIVE JoinParts(_, _)
\* sep.join(msgs), each message a sequence of fragments
JoinParts(msgs, sep) ==
    IF Len(msgs) = 0 THEN <<>>
    ELSE IF Len(msgs) = 1 THEN msgs[1]
    ELSE msgs[1] \o <<sep>> \o JoinParts(Tail(msgs), sep)

-----------------------------------------------------------------------------
(* The six tools and their keys *)

ToolNames == <<"fetch_bank_transactions", "fetch_credit_report", "fetch_epf_details",
               "fetch_mf_transactions", "fetch_net_worth", "fetch_stock_transactions">>

ToolSet == {ToolNames[i] : i \in 1..Len(ToolNames)}

tools_to_fetch ==
    [t \in ToolSet |->
        CASE t = "fetch_bank_transactions" -> "bank_txns"
          [] t = "fetch_credit_report" -> "credit_rpt"
          [] t = "fetch_epf_details" -> "epf"
          [] t = "fetch_mf_transactions" -> "mf_txns"
          [] t = "fetch_net_worth" -> "net_worth"
          [] t = "fetch_stock_transactions" -> "stocks"]

ContextKeys == {tools_to_fetch[t] : t \in ToolSet}

\* expected_key = {...}.get(tool_name): None for a tool outside the table
expected_key(tool_name) ==
    CASE tool_name = "fetch_bank_transactions" -> "bankTransactions"
      [] tool_name = "fetch_credit_report" -> "creditReport"
      [] tool_name = "fetch_epf_details" -> "epfDetails"
      [] tool_name = "fetch_mf_transactions" -> "mfTransactions"
      [] tool_name = "fetch_net_worth" -> "netWorth"
      [] tool_name = "fetch_stock_transactions" -> "stockTransactions"
      [] OTHER -> PyNone

get_mcp_session_id == "mcp-session-594e48ea-fea1-40ef-8c52-7552dd9272af"

\* "http://localhost:8080/mockWebPage?sessionId=" + get_mcp_session_id()
DefaultLoginUrl == "http://localhost:8080/mockWebPage?sessionId=" \o get_mcp_session_id

-----------------------------------------------------------------------------
(* What the transport and the remote service can give one call *)

\* requests.post raised: Timeout, ConnectionError or another exception
TransportRaise(type, detail) == [t |-> "raise", type |-> type, detail |-> detail]

\* an HTTP response: status code, body text, and the JSON shape of the body
HttpResponse(code, raw, shape, text) ==
    [t |-> "response", code |-> code, raw |-> raw, shape |-> shape, text |-> text]

\* result.content[0].text, a string that json.loads parses to `value`
JsonText(value) == [form |-> "json", value |-> value]

\* result.content[0].text, a string that is not JSON: which literal markers it
\* contains and what the pattern "login_url":\s*"(.*?)" captures in it
PlainText(has_login_required, has_login_url, url_match) ==
    [form |-> "text", login_required |-> has_login_required,
     login_url |-> has_login_url, url_match |-> url_match]

\* result.content[0].text holding a JSON value that is not a string
NonStringText == [form |-> "nonstr"]

NoText == [form |-> "absent"]

Envelope(text) == HttpResponse(200, "", "text", text)

-----------------------------------------------------------------------------
(* fetch_data_from_mcp *)

NoException == [type |-> "none", detail |-> ""]

ErrorDict(error, message) == Dict({<<"error", error>>, <<"message", message>>})

LoginRequiredDict(login_url) ==
    Dict({<<"error", "login_required">>,
          <<"message", <<"MCP login required. Please complete login via browser.">>>>,
          <<"login_url", login_url>>})

Returned(via, value) == [exc |-> NoException, via |-> via, value |-> value]
Raised(type, detail) == [exc |-> [type |-> type, detail |-> detail], via |-> "raise", value |-> Dict({})]

\* a lookup that looks for the category's field before the login status
FetchParsed_LookupFirst(tool_name, parsed_data) ==
    IF parsed_data.ty # "dict"
    THEN Raised("AttributeError", "object has no attribute 'get'")
    ELSE LET d == parsed_data.v
             ek == expected_key(tool_name)
         IN IF ek # PyNone /\ HasKey(d, ek) /\ Truthy(Get(d, ek, Dict({})))
            THEN Returned("payload", Get(d, ek, Dict({})))
            ELSE IF Get(d, "status", PyNone) = "login_required"
                    /\ Get(d, "login_url", PyNone) \notin {PyNone, ""}
            THEN Returned("login_required", LoginRequiredDict(Get(d, "login_url", PyNone)))
            ELSE Returned("no_data",
                          ErrorDict("no_data", <<"MCP returned no data for ", tool_name, ".">>))

\* a lookup that hands back the whole parsed object instead of the field
FetchParsed_WholeObject(tool_name, parsed_data) ==
    IF parsed_data.ty # "dict"
    THEN Raised("AttributeError", "object has no attribute 'get'")
    ELSE LET d == parsed_data.v
             ek == expected_key(tool_name)
         IN IF Get(d, "status", PyNone) = "login_required"
               /\ Get(d, "login_url", PyNone) \notin {PyNone, ""}
            THEN Returned("login_required", LoginRequiredDict(Get(d, "login_url", PyNone)))
            ELSE IF ek # PyNone /\ (~HasKey(d, ek) \/ ~Truthy(Get(d, ek, Dict({}))))
            THEN Returned("no_data",
                          ErrorDict("no_data", <<"MCP returned no data for ", tool_name, ".">>))
            ELSE Returned("payload", parsed_data)

\* lines 176-196: the inner text parsed to a dict
FetchParsed(tool_name, parsed_data) ==
    IF parsed_data.ty # "dict"
    THEN Raised("AttributeError", "object has no attribute 'get'")
    ELSE LET d == parsed_data.v
             ek == expected_key(tool_name)
         IN IF Get(d, "status", PyNone) = "login_required"
               /\ Get(d, "login_url", PyNone) \notin {PyNone, ""}
            THEN Returned("login_required", LoginRequiredDict(Get(d, "login_url", PyNone)))
            ELSE IF ek # PyNone /\ (~HasKey(d, ek) \/ ~Truthy(Get(d, ek, Dict({}))))
            THEN Returned("no_data",
                          ErrorDict("no_data", <<"MCP returned no data for ", tool_name, ".">>))
            ELSE IF ek = PyNone /\ d = {}
            THEN Returned("no_data",
                          ErrorDict("no_data", <<"MCP returned no data for ", tool_name, ".">>))
            ELSE Returned("payload", IF ek # PyNone THEN Get(d, ek, Dict({})) ELSE parsed_data)

\* a handler that takes either marker alone for a login message
FetchText_AnyMarker(tool_name, raw_str) ==
    IF raw_str.form = "nonstr"
    THEN Raised("TypeError", "the JSON object must be str, bytes or bytearray")
    ELSE IF raw_str.form = "text"
    THEN IF raw_str.login_required \/ raw_str.login_url
         THEN Returned("login_required",
                       LoginRequiredDict(IF raw_str.url_match # PyNone
                                         THEN raw_str.url_match ELSE DefaultLoginUrl))
         ELSE Returned("invalid_json",
                       ErrorDict("invalid_json", <<"MCP returned invalid JSON.">>))
    ELSE FetchParsed(tool_name, raw_str.value)

\* lines 164-174: json.loads of the inner text and its JSONDecodeError handler
FetchText(tool_name, raw_str) ==
    IF raw_str.form = "nonstr"
    THEN Raised("TypeError", "the JSON object must be str, bytes or bytearray")
    ELSE IF raw_str.form = "text"
    THEN IF raw_str.login_required /\ raw_str.login_url
         THEN Returned("login_required",
                       LoginRequiredDict(IF raw_str.url_match # PyNone
                                         THEN raw_str.url_match ELSE DefaultLoginUrl))
         ELSE Returned("invalid_json",
                       ErrorDict("invalid_json", <<"MCP returned invalid JSON.">>))
    ELSE FetchParsed(tool_name, raw_str.value)

\* lines 152-199: the body of the try block
FetchTry(tool_name, resp) ==
    IF resp.t = "raise" THEN Raised(resp.type, resp.detail)
    ELSE IF resp.code >= 400 /\ resp.code < 600
    THEN Raised("HTTPError", resp.raw)
    ELSE IF resp.shape = "not_json"
    THEN Raised("JSONDecodeError", "Expecting value")
    ELSE IF resp.shape = "not_container"
    THEN Raised("TypeError", "argument is not iterable")
    ELSE IF resp.shape = "text"
    THEN FetchText(tool_name, resp.text)
    ELSE Returned("empty_response",
                  ErrorDict("empty_response",
                            <<"MCP response for ", tool_name, " was empty or malformed.">>))

\* lines 201-212: the except clauses
FetchExcept(tool_name, resp, exc) ==
    CASE exc.type = "Timeout" ->
            Returned("timeout", ErrorDict("timeout", <<"MCP request timed out.">>))
      [] exc.type = "ConnectionError" ->
            Returned("connection_error",
                     ErrorDict("connection_error",
                               <<"Could not connect to MCP server. Is it running?">>))
      [] exc.type = "HTTPError" ->
            Returned("http_error",
                     ErrorDict("http_error",
                               <<"MCP HTTP error: ", ToString(resp.code), " - ", resp.raw>>))
      [] OTHER ->
            Returned("unexpected_error",
                     ErrorDict("unexpected_error",
                               <<"An unexpected error occurred during MCP fetch.">>))

\* one call: what it returned, through which return statement, and the
\* exception its try block raised on the way
FetchRun(tool_name, resp) ==
    LET body == FetchTry(tool_name, resp)
    IN IF body.exc.type = "none" THEN body
       ELSE [FetchExcept(tool_name, resp, body.exc) EXCEPT !.exc = body.exc]

fetch_data_from_mcp(tool_name, resp) == FetchRun(tool_name, resp).value

-----------------------------------------------------------------------------
(* The replies of the remote service that the model draws from *)

Urls == {"https://fi.example/login/" \o ToString(i) : i \in 1..MaxUrl}

Salaries == 1..MaxSalary

SummaryKeys == {"credit_rpt", "net_worth", "epf"}

TxnList == List({<<1, "txn">>})
SummaryDict == Dict({<<"summary", "s">>})
SalariedNetWorth(s) == Dict({<<"summary", "s">>, <<"salary", s>>})

\* payloads of the remote data that carry an "error" key of their own
ErrMsgPayload == Dict({<<"error", "remote_flag">>, <<"message", <<"remote text">>>>})
ErrOnlyPayload == Dict({<<"error", "remote_flag">>})
LoginLikePayload ==
    Dict({<<"error", "login_required">>, <<"message", <<"remote text">>>>,
          <<"login_url", "https://remote.example/page">>})

NaturalPayload(tool) ==
    IF tools_to_fetch[tool] \in SummaryKeys THEN SummaryDict ELSE TxnList

EmptyPayload(tool) ==
    IF tools_to_fetch[tool] \in SummaryKeys THEN Dict({}) ELSE List({})

DataReply(tool, payload) == Envelope(JsonText(Dict({<<expected_key(tool), payload>>})))

LoginReply(u) ==
    Envelope(JsonText(Dict({<<"status", "login_required">>, <<"login_url", u>>})))

PlainTexts ==
    {PlainText(lr, lu, m) : lr \in BOOLEAN, lu \in BOOLEAN, m \in {PyNone}}
    \cup {PlainText(lr, TRUE, m) : lr \in BOOLEAN, m \in Urls}

\* replies every tool may get
CommonReplies(tool) ==
    {TransportRaise("Timeout", "Read timed out")}
    \cup {DataReply(tool, p) : p \in {NaturalPayload(tool), EmptyPayload(tool),
                                     ErrMsgPayload, ErrOnlyPayload, LoginLikePayload}}
    \cup {LoginReply(u) : u \in Urls}

\* the other kinds of reply, spread over the tools
ExtraReplies(tool) ==
    CASE tool = "fetch_bank_transactions" ->
            {TransportRaise("ConnectionError", "Connection refused")}
      [] tool = "fetch_credit_report" ->
            {HttpResponse(500, "Internal Server Error", "not_json", NoText)}
      [] tool = "fetch_epf_details" ->
            {HttpResponse(200, "", "no_text", NoText)}
      [] tool = "fetch_mf_transactions" ->
            {Envelope(PlainText(FALSE, FALSE, PyNone)),
             Envelope(PlainText(TRUE, TRUE, PyNone))}
      [] tool = "fetch_net_worth" ->
            {DataReply(tool, SalariedNetWorth(s)) : s \in Salaries}
            \cup {DataReply(tool, TxnList)}
      [] tool = "fetch_stock_transactions" ->
            {TransportRaise("TooManyRedirects", "Exceeded 30 redirects")}
      [] OTHER -> {}

Replies(tool) == CommonReplies(tool) \cup ExtraReplies(tool)

-----------------------------------------------------------------------------
(* get_full_financial_context_from_mcp_shared *)

UserIds == {PyNone, "", "9876543210"}

\* a check that tests only for an absent user id and lets the empty one through
IsMissing_NoneOnly(uid) == uid = PyNone

\* `not user_id`
IsMissing(uid) == uid = PyNone \/ uid = ""

MissingUserIdResult ==
    {<<"error", "missing_user_id">>,
     <<"message", <<"User ID is required to fetch data from MCP.">>>>,
     <<"details", "Please provide a user ID (phone number).">>}

LoginRequiredResult(url) ==
    {<<"status", "error">>,
     <<"message", <<"MCP login required. Please complete login via browser.">>>>,
     <<"login_url", url>>,
     <<"details", "Visit the provided URL and try again.">>}

FetchErrorsResult(errs) ==
    {<<"status", "error">>,
     <<"message", <<"MCP Data Fetch Errors: ">> \o JoinParts(errs, "; ")>>,
     <<"details", "Some financial data could not be fetched. Check MCP logs.">>}

NoResult == {}

Locals(fd, errs, url) == [fetched_data |-> fd, errors |-> errs, login_required_url |-> url]

Continue(loc) == [ctl |-> "continue", loc |-> loc, result |-> NoResult, raised |-> NoException]
Return(loc, res) == [ctl |-> "return", loc |-> loc, result |-> res, raised |-> NoException]
Raise(loc, type, detail) ==
    [ctl |-> "raise", loc |-> loc, result |-> NoResult,
     raised |-> [type |-> type, detail |-> detail]]

\* `isinstance(data, dict) and "error" in data`
IsErrorDict(data) == data.ty = "dict" /\ HasKey(data.v, "error")

\* the default written for a tool whose fetch is counted as failed
DefaultFor(context_key) == IF context_key \in SummaryKeys THEN Dict({}) ELSE List({})

\* a loop body that treats login_required like any other failure and goes on
LoopBody_NoShortCircuit(loc, context_key, data) ==
    IF IsErrorDict(data)
    THEN IF ~HasKey(data.v, "message")
         THEN Raise(loc, "KeyError", "'message'")
         ELSE Continue(Locals(Put(loc.fetched_data, context_key, DefaultFor(context_key)),
                              Append(loc.errors, Get(data.v, "message", <<>>)),
                              loc.login_required_url))
    ELSE Continue(Locals(Put(loc.fetched_data, context_key, data),
                         loc.errors, loc.login_required_url))

\* a loop body that writes the default for a failed fetch and forgets the failure
LoopBody_ForgetsFailure(loc, context_key, data) ==
    IF IsErrorDict(data)
    THEN IF Get(data.v, "error", PyNone) = "login_required" /\ HasKey(data.v, "message")
         THEN LET url == Get(data.v, "login_url", PyNone)
              IN Return(Locals(loc.fetched_data,
                               Append(loc.errors, Get(data.v, "message", <<>>)), url),
                        LoginRequiredResult(url))
         ELSE Continue(Locals(Put(loc.fetched_data, context_key, DefaultFor(context_key)),
                              loc.errors, loc.login_required_url))
    ELSE Continue(Locals(Put(loc.fetched_data, context_key, data),
                         loc.errors, loc.login_required_url))

\* lines 243-253: the body of the loop, after fetch_data_from_mcp returned `data`
LoopBody(loc, context_key, data) ==
    IF IsErrorDict(data)
    THEN IF ~HasKey(data.v, "message")
         THEN Raise(loc, "KeyError", "'message'")
         ELSE LET errs == Append(loc.errors, Get(data.v, "message", <<>>))
              IN IF Get(data.v, "error", PyNone) = "login_required"
                 THEN LET url == Get(data.v, "login_url", PyNone)
                      IN Return(Locals(loc.fetched_data, errs, url), LoginRequiredResult(url))
                 ELSE Continue(Locals(Put(loc.fetched_data, context_key, DefaultFor(context_key)),
                                      errs, loc.login_required_url))
    ELSE Continue(Locals(Put(loc.fetched_data, context_key, data),
                         loc.errors, loc.login_required_url))

\* an epilogue that reports the errors but hands back what was fetched
AfterLoop_PartialData(loc) ==
    IF loc.errors # <<>>
    THEN Return(loc, loc.fetched_data \cup FetchErrorsResult(loc.errors))
    ELSE LET nw == Get(loc.fetched_data, "net_worth", Dict({}))
         IN IF nw.ty # "dict"
            THEN Raise(loc, "AttributeError", "object has no attribute 'get'")
            ELSE LET full == Put(Put(loc.fetched_data, "salary", Get(nw.v, "salary", 0)),
                                 "status", "success")
                 IN Return(Locals(full, loc.errors, loc.login_required_url), full)

\* lines 255-268: what follows the loop
AfterLoop(loc) ==
    IF loc.errors # <<>>
    THEN Return(loc, FetchErrorsResult(loc.errors))
    ELSE LET nw == Get(loc.fetched_data, "net_worth", Dict({}))
         IN IF nw.ty # "dict"
            THEN Raise(loc, "AttributeError", "object has no attribute 'get'")
            ELSE LET full == Put(Put(loc.fetched_data, "salary", Get(nw.v, "salary", 0)),
                                 "status", "success")
                 IN Return(Locals(full, loc.errors, loc.login_required_url), full)

\* one iteration, and the rest of the function when it was the last one
Iterate(loc, i, data) ==
    LET step == LoopBody(loc, tools_to_fetch[ToolNames[i]], data)
    IN IF step.ctl = "continue" /\ i = Len(ToolNames) THEN AfterLoop(step.loc) ELSE step

CallRecord(tool, uid, run) ==
    [tool |-> tool, phone_number |-> uid, via |-> run.via, value |-> run.value]

\* no workflow has run yet: nothing was returned, generated or responded
NoContext == [ctl |-> "none", result |-> NoResult, raised |-> NoException, calls |-> <<>>]

NoOutcome == [ctl |-> "none", result |-> NoResult, raised |-> NoException, invoked |-> FALSE]

NoGen == [kind |-> "none"]

NoResponse == [code |-> 0, body |-> NoResult]

Init ==
    /\ pc = "idle"
    /\ user_id = PyNone
    /\ idx = 0
    /\ fetched_data = {}
    /\ errors = <<>>
    /\ login_required_url = PyNone
    /\ result = NoResult
    /\ raised = NoException
    /\ calls = <<>>
    /\ f_pc = "idle"
    /\ f_tool = PyNone
    /\ f_resp = TransportRaise("none", "")
    /\ f_ret = Dict({})
    /\ f_exc = NoException
    /\ f_text = <<>>
    /\ w_pc = "idle"
    /\ w_name = PyNone
    /\ w_user = PyNone
    /\ w_ctx = NoContext
    /\ w_gen = NoGen
    /\ w_out = NoOutcome
    /\ r_resp = NoResponse

\* lines 221-229: entry, the user-id check and the locals
Call(uid) ==
    /\ pc = "idle"
    /\ user_id' = uid
    /\ IF IsMissing(uid)
       THEN /\ pc' = "returned"
            /\ result' = MissingUserIdResult
            /\ idx' = idx
       ELSE /\ pc' = "loop"
            /\ result' = result
            /\ idx' = 1
    /\ fetched_data' = {}
    /\ errors' = <<>>
    /\ login_required_url' = PyNone
    /\ UNCHANGED <<raised, calls>>
    /\ UNCHANGED fetch_vars
    /\ UNCHANGED flow_vars

\* lines 241-268: one fetch and what the loop does with it
FetchStep ==
    /\ pc = "loop"
    /\ idx <= Len(ToolNames)
    /\ \E resp \in Replies(ToolNames[idx]) :
          LET tool == ToolNames[idx]
              run == FetchRun(tool, resp)
              data == fetch_data_from_mcp(tool, resp)
              step == Iterate(Locals(fetched_data, errors, login_required_url), idx, data)
          IN /\ calls' = Append(calls, CallRecord(tool, user_id, run))
             /\ fetched_data' = step.loc.fetched_data
             /\ errors' = step.loc.errors
             /\ login_required_url' = step.loc.login_required_url
             /\ result' = step.result
             /\ raised' = step.raised
             /\ pc' = CASE step.ctl = "continue" -> "loop"
                        [] step.ctl = "return" -> "returned"
                        [] step.ctl = "raise" -> "raised"
             /\ idx' = IF step.ctl = "continue" THEN idx + 1 ELSE idx
    /\ UNCHANGED user_id
    /\ UNCHANGED fetch_vars
    /\ UNCHANGED flow_vars

Next ==
    \/ \E uid \in UserIds : Call(uid)
    \/ FetchStep

Spec == Init /\ [][Next]_vars

-----------------------------------------------------------------------------
(* One call of fetch_data_from_mcp on its own, over every kind of reply *)

OtherTool == "fetch_other"

FetchTools == ToolSet \cup {OtherTool}

Shapes == {"not_json", "not_container", "no_result", "no_content",
           "content_not_list", "content_empty", "no_text"}

InnerDocs(tool) ==
    LET ek == expected_key(tool)
        field == IF ek = PyNone THEN "data" ELSE ek
        payloads == {TxnList, SummaryDict, Dict({}), List({}), ErrMsgPayload}
                    \cup {SalariedNetWorth(s) : s \in Salaries}
    IN {Dict({})}
       \cup {Dict({<<field, p>>}) : p \in payloads}
       \cup {Dict({<<"status", "login_required">>, <<"login_url", u>>}) : u \in Urls \cup {""}}
       \cup {Dict({<<"status", "login_required">>})}
       \cup {Dict({<<"status", "login_required">>, <<"login_url", u>>, <<field, SummaryDict>>}) :
                u \in Urls}
       \cup {Dict({<<"status", "ok">>, <<"login_url", u>>, <<field, SummaryDict>>}) : u \in Urls}
       \cup {TxnList}

AllReplies(tool) ==
    {TransportRaise("Timeout", "Read timed out"),
     TransportRaise("ConnectionError", "Connection refused"),
     TransportRaise("TooManyRedirects", "Exceeded 30 redirects")}
    \cup {HttpResponse(c, "Server said no", "not_json", NoText) : c \in {404, 500}}
    \cup {HttpResponse(200, "", sh, NoText) : sh \in Shapes}
    \cup {Envelope(NonStringText)}
    \cup {Envelope(t) : t \in PlainTexts}
    \cup {Envelope(JsonText(doc)) : doc \in InnerDocs(tool)}

FetchCall(tool, resp) ==
    /\ f_pc = "idle"
    /\ f_pc' = "done"
    /\ f_tool' = tool
    /\ f_resp' = resp
    /\ f_ret' = fetch_data_from_mcp(tool, resp)
    /\ f_exc' = FetchRun(tool, resp).exc
    /\ f_text' = <<>>
    /\ UNCHANGED ctx_vars
    /\ UNCHANGED flow_vars

\* the caller takes the value; the next call starts from nothing
FetchDone ==
    /\ f_pc = "done"
    /\ f_pc' = "idle"
    /\ f_tool' = PyNone
    /\ f_resp' = TransportRaise("none", "")
    /\ f_ret' = Dict({})
    /\ f_exc' = NoException
    /\ f_text' = <<>>
    /\ UNCHANGED ctx_vars
    /\ UNCHANGED flow_vars

NextFetch ==
    \/ \E tool \in FetchTools : \E resp \in AllReplies(tool) : FetchCall(tool, resp)
    \/ FetchDone

SpecFetch == Init /\ [][NextFetch]_vars

-----------------------------------------------------------------------------
(* Properties *)

Finished == pc \in {"returned", "raised"}

Status == Get(result, "status", PyNone)

CalledTools == [k \in 1..Len(calls) |-> calls[k].tool]

CountVia(via) == Cardinality({k \in 1..Len(calls) : calls[k].via = via})

DataKeys == ContextKeys \cup {"salary"}

\* C1: when the k-th fetch is the first to return LoginRequired with URL u, the
\* aggregation has returned an error result whose login_url is u, and the k
\* fetches of the first k tools are all the fetches made.
C1_LoginShortCircuits ==
    \A k \in 1..Len(calls) :
        (/\ calls[k].via = "login_required"
         /\ \A j \in 1..(k - 1) : calls[j].via # "login_required")
        => /\ pc = "returned"
           /\ Status = "error"
           /\ Get(result, "login_url", PyNone) = Get(calls[k].value.v, "login_url", PyNone)
           /\ Get(result, "login_url", PyNone) # PyNone
           /\ Len(calls) = k
           /\ CalledTools = SubSeq(ToolNames, 1, k)

\* C1 witness: login required at the third tool, after a payload and a timeout
C1_Witness ==
    /\ pc = "returned"
    /\ Len(calls) = 3
    /\ calls[1].via = "payload"
    /\ calls[2].via = "timeout"
    /\ calls[3].via = "login_required"
    /\ HasKey(result, "login_url")

\* C2: an empty or absent user id is rejected at once with the missing-input
\* error result, and no fetch is made.
C2_MissingUserIdRejected ==
    (pc # "idle" /\ user_id \in {PyNone, ""})
    => /\ pc = "returned"
       /\ Get(result, "error", PyNone) = "missing_user_id"
       /\ calls = <<>>

\* C2 witness: the call with the empty user id has returned
C2_Witness == pc = "returned" /\ user_id = "" /\ result = MissingUserIdResult

\* C3: every result the aggregation returns carries a status that is success
\* or error, the missing-user-id rejection included.
C3_EveryResultHasStatus ==
    pc = "returned" => Status \in {"success", "error"}

\* C4: an error result holds no category payload and no salary; payloads and
\* salary appear only in a success result.
C4_AllOrNothing ==
    pc = "returned"
    => /\ (Status = "error" => Keys(result) \cap DataKeys = {})
       /\ (Keys(result) \cap DataKeys # {} => Status = "success")

\* C4 witness: an error result returned after some fetches had succeeded
C4_Witness ==
    /\ pc = "returned"
    /\ Status = "error"
    /\ Len(calls) = Len(ToolNames)
    /\ CountVia("payload") >= 1
    /\ \E key \in ContextKeys : Truthy(Get(fetched_data, key, Dict({})))

\* a message names a tool when one of its fragments is the tool's name or one
\* of the tool's keys
MentionsCategory(message, tool) ==
    \E i \in 1..Len(message) :
        message[i] \in {tool, tools_to_fetch[tool], expected_key(tool)}

\* C5: with exactly one fetch timed out and five succeeded, the result is an
\* error whose message names the tool that timed out, and holds no data.
C5_TimeoutMessageNamesCategory ==
    (/\ Finished
     /\ Len(calls) = Len(ToolNames)
     /\ CountVia("timeout") = 1
     /\ CountVia("payload") = Len(ToolNames) - 1)
    => /\ pc = "returned"
       /\ Status = "error"
       /\ Keys(result) \cap DataKeys = {}
       /\ \A k \in 1..Len(calls) :
             calls[k].via = "timeout"
             => MentionsCategory(Get(result, "message", <<>>), calls[k].tool)

SalaryOf(payload) == IF payload.ty = "dict" THEN Get(payload.v, "salary", 0) ELSE 0

\* C6: when all six fetches succeeded, the result is a success that maps each
\* category to the payload its fetch returned, with the net-worth salary or 0.
C6_AllSucceedGivesSuccess ==
    (/\ Finished
     /\ Len(calls) = Len(ToolNames)
     /\ CountVia("payload") = Len(ToolNames))
    => /\ pc = "returned"
       /\ Status = "success"
       /\ \A k \in 1..Len(calls) :
             Get(result, tools_to_fetch[calls[k].tool], Dict({})) = calls[k].value
       /\ \A k \in 1..Len(calls) :
             calls[k].tool = "fetch_net_worth"
             => Get(result, "salary", -1) = SalaryOf(calls[k].value)

\* C7: without a LoginRequired outcome, a call with a user id fetches each of
\* the six tools exactly once, in the fixed order.
C7_AllSixFetchedInOrder ==
    (/\ Finished
     /\ user_id \notin {PyNone, ""}
     /\ CountVia("login_required") = 0)
    => CalledTools = ToolNames

RECURSIVE FailureMessages(_)
\* the messages of the fetches that returned a typed failure, in call order
FailureMessages(cs) ==
    IF cs = <<>> THEN <<>>
    ELSE (IF cs[1].via # "payload" THEN <<Get(cs[1].value.v, "message", <<>>)>> ELSE <<>>)
         \o FailureMessages(Tail(cs))

\* C8: the accumulated-errors result joins exactly the messages of the failed
\* categories, one each, in the fixed category order.
C8_MessagesOfFailedInOrder ==
    (pc = "returned" /\ Status = "error" /\ ~HasKey(result, "login_url"))
    => Get(result, "message", <<>>)
          = <<"MCP Data Fetch Errors: ">> \o JoinParts(FailureMessages(calls), "; ")

\* C9: a fetch counts as failed exactly when the fetcher produced a typed
\* failure; a payload is stored under its category and adds no error.
C9_PayloadNeverCountedAsFailure ==
    /\ Len(errors) = Len(calls) - CountVia("payload")
    /\ \A k \in 1..Len(calls) :
          calls[k].via = "payload"
          => Get(fetched_data, tools_to_fetch[calls[k].tool], Dict({})) = calls[k].value

\* the failure dictionary holds the exception's own text somewhere
CarriesDetail(failure, detail) ==
    \/ Get(failure, "details", PyNone) = detail
    \/ Get(failure, "detail", PyNone) = detail
    \/ \E i \in 1..Len(Get(failure, "message", <<>>)) : Get(failure, "message", <<>>)[i] = detail

\* C10: an exception in the try block other than timeout, connection failure
\* and HTTP error comes back as an unexpected_error failure that carries the
\* exception's detail.
C10_UnexpectedErrorCarriesDetail ==
    (f_pc = "done" /\ f_exc.type \notin {"none", "Timeout", "ConnectionError", "HTTPError"})
    => /\ f_ret.ty = "dict"
       /\ Get(f_ret.v, "error", PyNone) = "unexpected_error"
       /\ CarriesDetail(f_ret.v, f_exc.detail)

-----------------------------------------------------------------------------
(* The text of a model response and the extraction of its JSON object:
   re.search(r"\{(?:[^{}]|(?:\{[^{}]*\}))*\}", raw, re.S) and json.loads.
   A text is a sequence of tokens; each token is one character of the
   model's alphabet and stands for a piece of the response:
     "{" "}" "," " "   themselves
     "M"   the member  "a": 1
     "N"   the member  "c": 2
     "K"   the key and colon  "b":   (a value must follow)
     "x"   a word of commentary                                            *)

MaxTextLen == 4

Alphabet == {"{", "}", "M", "K", "x"}

Num(n) == [ty |-> "num", v |-> {n}]

\* the text as one string, as it is stored in a result
RECURSIVE Concat(_)
Concat(text) == IF text = <<>> THEN "" ELSE Head(text) \o Concat(Tail(text))

IsWs(c) == c = " "

RECURSIVE SkipWs(_, _)
SkipWs(text, pos) ==
    IF pos <= Len(text) /\ IsWs(text[pos]) THEN SkipWs(text, pos + 1) ELSE pos

RECURSIVE DropTrailingWs(_)
DropTrailingWs(text) ==
    IF text # <<>> /\ IsWs(text[Len(text)])
    THEN DropTrailingWs(SubSeq(text, 1, Len(text) - 1))
    ELSE text

\* str.strip()
Strip(text) == DropTrailingWs(SubSeq(text, SkipWs(text, 1), Len(text)))

IsBrace(c) == c \in {"{", "}"}

\* [^{}]* from pos: the position after the run of non-brace characters
RECURSIVE SkipPlain(_, _)
SkipPlain(text, pos) ==
    IF pos <= Len(text) /\ ~IsBrace(text[pos]) THEN SkipPlain(text, pos + 1) ELSE pos

\* (?:[^{}]|(?:\{[^{}]*\}))*\} from pos: the position of the closing brace,
\* 0 when the pattern cannot match from here. Every alternative consumes a
\* determined stretch, so the match of a start position is unique.
RECURSIVE MatchItems(_, _)
MatchItems(text, pos) ==
    IF pos > Len(text) THEN 0
    ELSE IF text[pos] = "}" THEN pos
    ELSE IF text[pos] = "{"
    THEN LET q == SkipPlain(text, pos + 1)
         IN IF q <= Len(text) /\ text[q] = "}" THEN MatchItems(text, q + 1) ELSE 0
    ELSE MatchItems(text, pos + 1)

\* the pattern anchored at i: the position of the last character of its match
MatchAt(text, i) == IF text[i] = "{" THEN MatchItems(text, i + 1) ELSE 0

NoMatch == [found |-> FALSE, start |-> 0, end |-> 0, group |-> <<>>]

\* a search that takes the text from its first "{" to its last "}"
ReSearch_Greedy(text) ==
    LET opens == {i \in 1..Len(text) : text[i] = "{"}
        closes == {i \in 1..Len(text) : text[i] = "}"}
    IN IF opens = {} \/ closes = {} THEN NoMatch
       ELSE LET i == CHOOSE s \in opens : \A t \in opens : s <= t
                j == CHOOSE s \in closes : \A t \in closes : s >= t
            IN IF i < j
               THEN [found |-> TRUE, start |-> i, end |-> j, group |-> SubSeq(text, i, j)]
               ELSE NoMatch

\* re.search: the match at the leftmost position where the pattern matches
ReSearch(text) ==
    LET starts == {i \in 1..Len(text) : MatchAt(text, i) # 0}
    IN IF starts = {} THEN NoMatch
       ELSE LET i == CHOOSE s \in starts : \A t \in starts : s <= t
            IN [found |-> TRUE, start |-> i, end |-> MatchAt(text, i),
                group |-> SubSeq(text, i, MatchAt(text, i))]

ParseFail == [ok |-> FALSE, val |-> Dict({}), next |-> 0]

\* the JSON grammar for an object: "{" ws "}" or "{" member ("," member)* "}"
RECURSIVE ParseObject(_, _), ParseMembers(_, _, _)
ParseObject(text, pos) ==
    LET p == SkipWs(text, pos)
    IN IF p > Len(text) \/ text[p] # "{" THEN ParseFail
       ELSE LET q == SkipWs(text, p + 1)
            IN IF q <= Len(text) /\ text[q] = "}"
               THEN [ok |-> TRUE, val |-> Dict({}), next |-> q + 1]
               ELSE ParseMembers(text, q, {})

ParseMembers(text, pos, acc) ==
    LET p == SkipWs(text, pos)
        member ==
            IF p > Len(text) THEN ParseFail
            ELSE IF text[p] = "M" THEN [ok |-> TRUE, val |-> <<"a", Num(1)>>, next |-> p + 1]
            ELSE IF text[p] = "N" THEN [ok |-> TRUE, val |-> <<"c", Num(2)>>, next |-> p + 1]
            ELSE IF text[p] = "K"
            THEN LET o == ParseObject(text, p + 1)
                 IN IF o.ok THEN [ok |-> TRUE, val |-> <<"b", o.val>>, next |-> o.next]
                    ELSE ParseFail
            ELSE ParseFail
    IN IF ~member.ok THEN ParseFail
       ELSE LET acc2 == Put(acc, member.val[1], member.val[2])
                q == SkipWs(text, member.next)
            IN IF q > Len(text) THEN ParseFail
               ELSE IF text[q] = "}" THEN [ok |-> TRUE, val |-> Dict(acc2), next |-> q + 1]
               ELSE IF text[q] = "," THEN ParseMembers(text, q + 1, acc2)
               ELSE ParseFail

\* json.loads of a span that starts with "{": the object, or JSONDecodeError
JsonLoads(text) ==
    LET o == ParseObject(text, 1)
    IN IF o.ok /\ SkipWs(text, o.next) > Len(text)
       THEN [ok |-> TRUE, val |-> o.val]
       ELSE [ok |-> FALSE, val |-> Dict({})]

-----------------------------------------------------------------------------
(* The generative model: what model.generate_content and resp.text can do *)

\* the Vertex AI initialisation failed: model, GEN_CFG and Part are None
GenUnavailable == [kind |-> "unavailable"]

\* generate_content or resp.text raised; grpc: str(e).lower() contains "grpc"
GenRaise(type, detail, grpc) ==
    [kind |-> "raise", type |-> type, detail |-> detail, grpc |-> grpc]

\* resp.text
GenText(text) == [kind |-> "text", text |-> text]

\* a workflow returned `res`; invoked: generate_content was called
Done(res, invoked) ==
    [ctl |-> "return", result |-> res, raised |-> NoException, invoked |-> invoked]

\* an exception left the workflow
Escaped(exc, invoked) ==
    [ctl |-> "raise", result |-> NoResult, raised |-> exc, invoked |-> invoked]

\* a handler read a local that the try block had not bound yet
UnboundLocalError(name) == [type |-> "UnboundLocalError", detail |-> name]

\* str(e) of the json.JSONDecodeError that json.loads raises
DecodeErrorText == "Expecting property name enclosed in double quotes"

\* isinstance(e, requests.exceptions.ConnectionError) or "grpc" in str(e).lower()
IsCommunicationError(gen) == gen.type = "ConnectionError" \/ gen.grpc

\* a handler that keeps the message and drops the response text
ExtractionFailed_NoRaw(raw_response_text) ==
    {<<"status", "error">>,
     <<"message", <<"JSON extraction/parsing failed">>>>,
     <<"details", "No valid JSON object found in Gemini's response.">>}

\* lines 92 and 104-106: the ValueError raised for a text without a match,
\* and the result its handler builds
ExtractionFailed(raw_response_text) ==
    {<<"status", "error">>,
     <<"message", <<"JSON extraction/parsing failed">>>>,
     <<"details", "No valid JSON object found in Gemini's response. Raw: "
                  \o Concat(raw_response_text)>>,
     <<"gemini_response", Concat(raw_response_text)>>}

\* lines 99-103: the result the JSONDecodeError handler builds
InvalidJson(raw_response_text) ==
    {<<"status", "error">>,
     <<"message", <<"Invalid JSON from Gemini">>>>,
     <<"details", DecodeErrorText>>,
     <<"gemini_response", Concat(raw_response_text)>>}

\* home_loan_affordability.py lines 71-113
_call_gemini_and_parse_json(gen) ==
    IF gen.kind = "unavailable"
    THEN Done({<<"status", "error">>,
               <<"message", <<"Vertex AI model not available.">>>>,
               <<"details", "Model object is None or configuration is missing.">>}, FALSE)
    ELSE IF gen.kind = "raise"
    THEN IF gen.type \in {"JSONDecodeError", "ValueError"}
         THEN Escaped(UnboundLocalError("raw_response_text"), TRUE)
         ELSE IF IsCommunicationError(gen)
         THEN Done({<<"status", "error">>,
                    <<"message", <<"Vertex AI communication error. Check project setup/quotas.">>>>,
                    <<"details", gen.detail>>}, TRUE)
         ELSE Done({<<"status", "error">>,
                    <<"message", <<"An unexpected error occurred during API call.">>>>,
                    <<"details", gen.detail>>}, TRUE)
    ELSE LET raw_response_text == Strip(gen.text)
             match == ReSearch(raw_response_text)
         IN IF ~match.found
            THEN Done(ExtractionFailed(raw_response_text), TRUE)
            ELSE LET parsed_data == JsonLoads(match.group)
                 IN IF parsed_data.ok
                    THEN Done({<<"status", "success">>, <<"data", parsed_data.val>>}, TRUE)
                    ELSE Done(InvalidJson(raw_response_text), TRUE)

\* the empty report fields of an error result of the home-loan workflow
EmptyReport ==
    {<<"affordability_score", "">>, <<"max_affordable_emi", "">>,
     <<"max_affordable_loan_amount", "">>, <<"gross_monthly_income", "">>,
     <<"home_loan_verdict", "">>, <<"short_summary", "">>,
     <<"brutal_advice", List({})>>}

\* an epilogue that answers a failed analysis with an empty report
AnalysisFailed_EmptyReport(response) ==
    {<<"status", "success">>} \cup EmptyReport

\* lines 347-357: the result for a failed model call or extraction
AnalysisFailed(response) ==
    {<<"status", "error">>,
     <<"message", Get(response, "message", <<"Unknown error during AI analysis">>)>>,
     <<"details", Get(response, "details", "")>>,
     <<"gemini_response", Get(response, "gemini_response", "")>>}
    \cup EmptyReport

\* home_loan_affordability.py lines 312-357; ctx is how the aggregation ended
analyze_home_loan_affordability(ctx, gen) ==
    IF ctx.ctl = "raise" THEN Escaped(ctx.raised, FALSE)
    ELSE LET full_ctx == ctx.result
         IN IF Get(full_ctx, "status", PyNone) = "error"
            THEN Done({<<"status", "error">>,
                       <<"message", Get(full_ctx, "message", <<"MCP data fetch failed.">>)>>,
                       <<"details", Get(full_ctx, "details", "")>>,
                       <<"login_url", Get(full_ctx, "login_url", PyNone)>>}
                      \cup EmptyReport, FALSE)
            ELSE LET response == _call_gemini_and_parse_json(gen)
                 IN IF response.ctl = "raise" THEN response
                    ELSE IF Get(response.result, "status", PyNone) = "success"
                    THEN LET parsed_data == Get(response.result, "data", Dict({})).v
                         IN Done(Put(parsed_data, "status",
                                     Get(parsed_data, "status", "success")), TRUE)
                    ELSE Done(AnalysisFailed(response.result), response.invoked)

\* `"error" in full_ctx` and the result built from it (lines 135-136, 282-283)
ContextErrorResult(full_ctx) ==
    IF ~HasKey(full_ctx, "message") THEN Escaped([type |-> "KeyError", detail |-> "'message'"], FALSE)
    ELSE IF ~HasKey(full_ctx, "details") THEN Escaped([type |-> "KeyError", detail |-> "'details'"], FALSE)
    ELSE Done({<<"status", "error">>,
               <<"message", Get(full_ctx, "message", <<>>)>>,
               <<"details", Get(full_ctx, "details", "")>>,
               <<"login_url", Get(full_ctx, "login_url", PyNone)>>}, FALSE)

\* not any(full_ctx.get(key) for key in [...]) and full_ctx.get("salary", 0) == 0
NoFinancialData(full_ctx) ==
    /\ \A key \in {"bank_txns", "mf_txns", "credit_rpt", "epf", "stocks", "net_worth"} :
          ~Truthy(Get(full_ctx, key, Dict({})))
    /\ Get(full_ctx, "salary", 0) = 0

\* analyse_spending_patterns.py lines 130-182
analyze_financial_data(ctx, gen) ==
    IF ctx.ctl = "raise" THEN Escaped(ctx.raised, FALSE)
    ELSE LET full_ctx == ctx.result
         IN IF HasKey(full_ctx, "error") THEN ContextErrorResult(full_ctx)
            ELSE IF NoFinancialData(full_ctx)
            THEN Done({<<"status", "error">>,
                       <<"message", <<"No financial data available for analysis for this user. (MCP might be returning empty data)">>>>,
                       <<"details", "Please ensure MCP server is running and returning data for this user ID.">>},
                      FALSE)
            ELSE IF gen.kind = "unavailable"
            THEN Done({<<"status", "error">>,
                       <<"message", <<"An unexpected error occurred during analysis.">>>>,
                       <<"details", "'NoneType' object has no attribute 'generate_content'">>}, FALSE)
            ELSE IF gen.kind = "raise"
            THEN IF gen.type \in {"JSONDecodeError", "ValueError"}
                 THEN Escaped(UnboundLocalError("raw"), TRUE)
                 ELSE IF IsCommunicationError(gen)
                 THEN Done({<<"status", "error">>,
                            <<"message", <<"Vertex AI communication error. Check project setup/quotas.">>>>,
                            <<"details", gen.detail>>}, TRUE)
                 ELSE Done({<<"status", "error">>,
                            <<"message", <<"An unexpected error occurred during analysis.">>>>,
                            <<"details", gen.detail>>}, TRUE)
            ELSE LET raw == Strip(gen.text)
                     m == ReSearch(raw)
                 IN IF ~m.found
                    THEN Done({<<"status", "error">>,
                               <<"message", <<"Gemini returned invalid JSON for analysis.">>>>,
                               <<"details", Concat(raw)>>}, TRUE)
                    ELSE LET parsed == JsonLoads(m.group)
                         IN IF parsed.ok
                            THEN Done(Put(parsed.val.v, "status", "success"), TRUE)
                            ELSE Done({<<"status", "error">>,
                                       <<"message", <<"Invalid JSON from Gemini for analysis">>>>,
                                       <<"details", DecodeErrorText>>,
                                       <<"gemini_response", Concat(raw)>>}, TRUE)

\* analyse_spending_patterns.py lines 281-333
get_financial_goal_breakdown(ctx, gen) ==
    IF ctx.ctl = "raise" THEN Escaped(ctx.raised, FALSE)
    ELSE LET full_ctx == ctx.result
         IN IF HasKey(full_ctx, "error") THEN ContextErrorResult(full_ctx)
            ELSE IF gen.kind = "unavailable"
            THEN Done({<<"status", "error">>,
                       <<"message", <<"Goal breakdown analysis failed">>>>,
                       <<"details", "'NoneType' object has no attribute 'generate_content'">>}, FALSE)
            ELSE IF gen.kind = "raise"
            THEN IF gen.type = "JSONDecodeError"
                 THEN Escaped(UnboundLocalError("raw"), TRUE)
                 ELSE Done({<<"status", "error">>,
                            <<"message", <<"Goal breakdown analysis failed">>>>,
                            <<"details", gen.detail>>}, TRUE)
            ELSE LET raw == Strip(gen.text)
                     m == ReSearch(raw)
                 IN IF ~m.found
                    THEN Done({<<"status", "error">>,
                               <<"message", <<"Gemini returned invalid JSON for goal breakdown.">>>>,
                               <<"details", Concat(raw)>>}, TRUE)
                    ELSE LET parsed == JsonLoads(m.group)
                         IN IF parsed.ok
                            THEN Done(Put(parsed.val.v, "status", "success"), TRUE)
                            ELSE Done({<<"status", "error">>,
                                       <<"message", <<"Invalid JSON from Gemini for goal breakdown">>>>,
                                       <<"details", DecodeErrorText>>,
                                       <<"gemini_response", Concat(raw)>>}, TRUE)

WorkflowNames ==
    {"analyze_financial_data", "get_financial_goal_breakdown", "analyze_home_loan_affordability"}

Workflow(name, ctx, gen) ==
    CASE name = "analyze_financial_data" -> analyze_financial_data(ctx, gen)
      [] name = "get_financial_goal_breakdown" -> get_financial_goal_breakdown(ctx, gen)
      [] name = "analyze_home_loan_affordability" -> analyze_home_loan_affordability(ctx, gen)

-----------------------------------------------------------------------------
(* A whole aggregation call, as the workflows make it *)

\* the loop of lines 241-268 from iteration i on, over scripted replies;
\* vias records how each fetch that was made ended
RECURSIVE RunLoop(_, _, _, _)
RunLoop(loc, i, replies, vias) ==
    LET run == FetchRun(ToolNames[i], replies[i])
        step == Iterate(loc, i, fetch_data_from_mcp(ToolNames[i], replies[i]))
        made == Append(vias, run.via)
    IN IF step.ctl = "continue"
       THEN RunLoop(step.loc, i + 1, replies, made)
       ELSE [ctl |-> step.ctl, result |-> step.result, raised |-> step.raised, calls |-> made]

\* get_full_financial_context_from_mcp_shared(uid) when the remote service
\* answers the i-th fetch with replies[i]
RunContext(uid, replies) ==
    IF IsMissing(uid)
    THEN [ctl |-> "return", result |-> MissingUserIdResult, raised |-> NoException,
          calls |-> <<>>]
    ELSE RunLoop(Locals({}, <<>>, PyNone), 1, replies, <<>>)

MaxFaults == 1

\* every tool gets its ordinary payload
NaturalReplies == [i \in 1..Len(ToolNames) |-> DataReply(ToolNames[i], NaturalPayload(ToolNames[i]))]

\* the ordinary replies with at most n of them replaced by another reply
RECURSIVE Scenarios(_)
Scenarios(n) ==
    IF n = 0 THEN {NaturalReplies}
    ELSE LET less == Scenarios(n - 1)
         IN less \cup UNION {UNION {{[r EXCEPT ![i] = x] : x \in Replies(ToolNames[i])}
                                    : i \in 1..Len(ToolNames)} : r \in less}

-----------------------------------------------------------------------------
(* The routes of backend/app.py *)

Routes == {"/analyze_spending", "/goal_breakdown", "/analyze_home_loan"}

\* the workflow a route calls
RouteWorkflow(route) ==
    CASE route = "/analyze_spending" -> "analyze_financial_data"
      [] route = "/goal_breakdown" -> "get_financial_goal_breakdown"
      [] route = "/analyze_home_loan" -> "analyze_home_loan_affordability"

\* a request: whether it is JSON, its user_id, and its goal or user_query
Request(is_json, uid, arg) == [is_json |-> is_json, user_id |-> uid, arg |-> arg]

Requests ==
    {Request(j, u, a) : j \in BOOLEAN, u \in UserIds, a \in {PyNone, "buy a house"}}

Response(code, body) == [code |-> code, body |-> body]

\* the 400 answers: `not request.is_json`, then the required fields
Rejection(route, req) ==
    IF ~req.is_json
    THEN Response(400, {<<"status", "error">>, <<"message", <<"Request must be JSON">>>>})
    ELSE IF route = "/analyze_spending"
    THEN IF IsMissing(req.user_id)
         THEN Response(400, {<<"status", "error">>, <<"message", <<"'user_id' is required">>>>})
         ELSE NoResponse
    ELSE IF IsMissing(req.user_id) \/ IsMissing(req.arg)
    THEN Response(400, {<<"status", "error">>,
                        <<"message", IF route = "/goal_breakdown"
                                     THEN <<"'goal' and 'user_id' are required">>
                                     ELSE <<"'user_id' and 'user_query' are required">>>>})
    ELSE NoResponse

\* what the route makes of the workflow's result; an exception that leaves the
\* view function is answered by the framework with a 500 that has no JSON body
RouteResponse(out) ==
    IF out.ctl = "raise" THEN Response(500, NoResult)
    ELSE LET res == out.result
         IN IF Get(res, "error", PyNone) = "login_required"
               /\ Get(res, "login_url", PyNone) \notin {PyNone, ""}
            THEN Response(401, {<<"status", "login_required">>,
                                <<"message", Get(res, "message", <<"MCP login required.">>)>>,
                                <<"login_url", Get(res, "login_url", PyNone)>>})
            ELSE IF Get(res, "status", PyNone) = "error" THEN Response(500, res)
            ELSE Response(200, res)

-----------------------------------------------------------------------------
(* The inputs of the workflows *)

\* Here is the result: {"a": 1, "b": {"c": 2}} hope that helps
CommentedObject ==
    <<"x", " ", "{", "M", ",", " ", "K", " ", "{", "N", "}", "}", " ", "x">>

\* texts chosen for their shape: padded, three levels deep, two objects
ChosenTexts ==
    {CommentedObject,
     <<" ", "{", "M", "}", " ">>,
     <<" ", "x", " ">>,
     <<"{", "K", "{", "K", "{", "M", "}", "}", "}">>,
     <<"{", "M", "}", "x", "{", "N", "}">>,
     <<"{", "M", ",", "}">>,
     <<"x", "{", "K", "}", "x">>}

\* every text of at most n tokens of the alphabet
TextsUpTo(n) == UNION {[1..k -> Alphabet] : k \in 0..n}

Texts == TextsUpTo(MaxTextLen) \cup ChosenTexts

GenFailures ==
    {GenUnavailable,
     GenRaise("ValueError", "response was blocked", FALSE),
     GenRaise("JSONDecodeError", "Expecting value", FALSE),
     GenRaise("ConnectionError", "connection reset", FALSE),
     GenRaise("RuntimeError", "grpc channel closed", TRUE),
     GenRaise("RuntimeError", "quota exceeded", FALSE)}

FlowGens ==
    GenFailures \cup {GenText(t) : t \in {<<"{", "M", "}">>, <<"x">>, <<"{", "K", "}">>,
                                         CommentedObject}}

-----------------------------------------------------------------------------
(* The workflows and the routes as actions *)

\* a direct call of a workflow function
WorkflowCall(name, uid, replies, gen) ==
    /\ w_pc = "idle"
    /\ LET ctx == RunContext(uid, replies)
       IN /\ w_ctx' = ctx
          /\ w_out' = Workflow(name, ctx, gen)
    /\ w_pc' = "called"
    /\ w_name' = name
    /\ w_user' = uid
    /\ w_gen' = gen
    /\ r_resp' = NoResponse
    /\ UNCHANGED ctx_vars
    /\ UNCHANGED fetch_vars

\* a POST to a route: the checks of the request, the workflow, the response
RouteRequest(route, req, replies, gen) ==
    /\ w_pc = "idle"
    /\ LET rejection == Rejection(route, req)
           ctx == RunContext(req.user_id, replies)
           out == Workflow(RouteWorkflow(route), ctx, gen)
       IN IF rejection.code # 0
          THEN /\ w_ctx' = NoContext
               /\ w_out' = NoOutcome
               /\ r_resp' = rejection
          ELSE /\ w_ctx' = ctx
               /\ w_out' = out
               /\ r_resp' = RouteResponse(out)
    /\ w_pc' = "responded"
    /\ w_name' = RouteWorkflow(route)
    /\ w_user' = req.user_id
    /\ w_gen' = gen
    /\ UNCHANGED ctx_vars
    /\ UNCHANGED fetch_vars

\* a call or a request is taken while none is in progress
NextFlow ==
    \/ /\ w_pc = "idle"
       /\ \E uid \in UserIds, replies \in Scenarios(MaxFaults) :
             \E name \in WorkflowNames, gen \in FlowGens :
                WorkflowCall(name, uid, replies, gen)
    \/ /\ w_pc = "idle"
       /\ \E req \in Requests, replies \in Scenarios(MaxFaults) :
             \E route \in Routes, gen \in FlowGens :
                RouteRequest(route, req, replies, gen)

\* the workflows and the routes over the outcomes of the fetches and the model
SpecFlow == Init /\ [][NextFlow]_vars

NextExtract ==
    /\ w_pc = "idle"
    /\ \E name \in WorkflowNames, text \in Texts :
          WorkflowCall(name, "9876543210", NaturalReplies, GenText(text))

\* the workflows over the texts of the model, with every fetch succeeding
SpecExtract == Init /\ [][NextExtract]_vars

-----------------------------------------------------------------------------
(* Claims about the workflows *)

\* a workflow function ran (directly or behind a route) and ended
WorkflowEnded == w_pc \in {"called", "responded"} /\ w_out.ctl # "none"

\* the text the extraction works on
RawText == Strip(w_gen.text)

\* the model was invoked and produced a text
ModelAnswered == WorkflowEnded /\ w_out.invoked /\ w_gen.kind = "text"

\* C11: every workflow, and the aggregation it calls, ends by returning a
\* result that has a `status` field, whatever the fetches and the model did;
\* no exception leaves them.
C11_WorkflowsAlwaysReturnStatus ==
    WorkflowEnded
    => /\ w_ctx.ctl = "return"
       /\ HasKey(w_ctx.result, "status")
       /\ w_out.ctl = "return"
       /\ HasKey(w_out.result, "status")

-----------------------------------------------------------------------------
(* The inner text of an envelope as text: what json.loads, the two `in`
   tests and re.search(r'"login_url":\s*"(.*?)"', raw_str) make of it.
   A text is a sequence of pieces; a piece is a quote, a colon, a blank, a
   line break, a URL or one of the two marker words.                        *)

Quote == "\""

LineBreak == "\n"

LoginRequiredWord == "login_required"

LoginUrlWord == "login_url"

IsSpace(c) == c \in {" ", LineBreak}

RECURSIVE SkipSpace(_, _)
SkipSpace(text, pos) ==
    IF pos <= Len(text) /\ IsSpace(text[pos]) THEN SkipSpace(text, pos + 1) ELSE pos

RECURSIVE DropTrailingSpace(_)
DropTrailingSpace(text) ==
    IF text # <<>> /\ IsSpace(text[Len(text)])
    THEN DropTrailingSpace(SubSeq(text, 1, Len(text) - 1))
    ELSE text

\* json.loads succeeds: with these pieces only a string literal is JSON
IsJsonString(text) ==
    LET t == DropTrailingSpace(SubSeq(text, SkipSpace(text, 1), Len(text)))
    IN /\ Len(t) >= 2
       /\ t[1] = Quote
       /\ t[Len(t)] = Quote
       /\ \A i \in 2..(Len(t) - 1) : t[i] \notin {Quote, LineBreak}

\* (.*?)" from pos: the position of the closing quote, 0 when a line break
\* or the end of the text comes first
RECURSIVE ClosingQuote(_, _)
ClosingQuote(text, pos) ==
    IF pos > Len(text) \/ text[pos] = LineBreak THEN 0
    ELSE IF text[pos] = Quote THEN pos
    ELSE ClosingQuote(text, pos + 1)

NoCapture == [found |-> FALSE, group |-> ""]

\* the pattern "login_url":\s*"(.*?)" anchored at i
LoginUrlAt(text, i) ==
    IF i + 3 <= Len(text) /\ SubSeq(text, i, i + 3) = <<Quote, LoginUrlWord, Quote, ":">>
    THEN LET j == SkipSpace(text, i + 4)
         IN IF j <= Len(text) /\ text[j] = Quote /\ ClosingQuote(text, j + 1) # 0
            THEN [found |-> TRUE, group |-> Concat(SubSeq(text, j + 1, ClosingQuote(text, j + 1) - 1))]
            ELSE NoCapture
    ELSE NoCapture

\* re.search of that pattern: group(1) of the leftmost match
LoginUrlSearch(text) ==
    LET starts == {i \in 1..Len(text) : LoginUrlAt(text, i).found}
    IN IF starts = {} THEN NoCapture
       ELSE LoginUrlAt(text, CHOOSE s \in starts : \A t \in starts : s <= t)

Contains(text, word) == \E i \in 1..Len(text) : text[i] = word

\* a JSON string, the value json.loads gives for a string literal
JsonString == [ty |-> "str", v |-> {}]

\* raw_str as lines 164-171 see it
TextOf(text) ==
    IF IsJsonString(text) THEN JsonText(JsonString)
    ELSE PlainText(Contains(text, LoginRequiredWord), Contains(text, LoginUrlWord),
                   IF LoginUrlSearch(text).found THEN LoginUrlSearch(text).group ELSE PyNone)

\* the texts the remote service may send: a lead, a key, a colon, a gap,
\* a value and a tail, each from a few shapes
InnerTexts ==
    LET url == CHOOSE u \in Urls : TRUE
        leads == {<<>>, <<LoginRequiredWord, " ">>,
                  <<Quote, LoginUrlWord, Quote, ":", Quote, LineBreak>>}
        keys == {<<Quote, LoginUrlWord, Quote>>, <<LoginUrlWord>>, <<Quote>>}
        colons == {<<":">>, <<" ", ":">>, <<>>}
        gaps == {<<>>, <<" ">>, <<LineBreak, " ">>}
        values == {<<Quote, url, Quote>>, <<Quote, Quote>>, <<Quote, url>>,
                   <<Quote, url, LineBreak, Quote>>, <<url>>,
                   <<Quote, url, " ", LoginRequiredWord, Quote>>, <<>>}
        tails == {<<>>, <<" ", LoginRequiredWord>>, <<Quote>>}
    IN {l \o k \o c \o g \o v \o t :
            l \in leads, k \in keys, c \in colons, g \in gaps, v \in values, t \in tails}

\* one call of fetch_data_from_mcp whose envelope carries the given inner text
FetchTextCall(tool, text) ==
    /\ f_pc = "idle"
    /\ f_pc' = "done"
    /\ f_tool' = tool
    /\ f_resp' = Envelope(TextOf(text))
    /\ f_ret' = fetch_data_from_mcp(tool, Envelope(TextOf(text)))
    /\ f_exc' = FetchRun(tool, Envelope(TextOf(text))).exc
    /\ f_text' = text
    /\ UNCHANGED ctx_vars
    /\ UNCHANGED flow_vars

NextText ==
    \/ /\ f_pc = "idle"
       /\ \E tool \in FetchTools, text \in InnerTexts : FetchTextCall(tool, text)
    \/ FetchDone

\* one fetch over the inner texts
SpecText == Init /\ [][NextText]_vars

-----------------------------------------------------------------------------
(* Claims about one fetch *)

\* a fetch ended whose inner text was given as text and is not JSON
UnparsedText == f_pc = "done" /\ f_text # <<>> /\ ~IsJsonString(f_text)

BothMarkers == Contains(f_text, LoginRequiredWord) /\ Contains(f_text, LoginUrlWord)

InvalidJsonDict == ErrorDict("invalid_json", <<"MCP returned invalid JSON.">>)

\* C12 as stated: an inner text that is not JSON and holds both markers gives
\* the login failure whose URL is the one the pattern extracts from the text;
\* any other such text gives the invalid-JSON failure.
C12_LoginUrlExtractedFromText ==
    UnparsedText
    => IF BothMarkers
       THEN /\ LoginUrlSearch(f_text).found
            /\ f_ret = LoginRequiredDict(LoginUrlSearch(f_text).group)
       ELSE f_ret = InvalidJsonDict

\* C12 amended: with both markers the login failure carries the URL the
\* pattern captures, or the mock-page URL of the session when the pattern
\* matches nowhere in the text; any other such text gives invalid JSON.
C12_LoginUrlExtractedOrDefault ==
    UnparsedText
    => IF BothMarkers
       THEN f_ret = LoginRequiredDict(IF LoginUrlSearch(f_text).found
                                      THEN LoginUrlSearch(f_text).group
                                      ELSE DefaultLoginUrl)
       ELSE f_ret = InvalidJsonDict

\* both markers, and the pattern matches nowhere: the default URL is returned
C12_Witness ==
    /\ UnparsedText
    /\ BothMarkers
    /\ ~LoginUrlSearch(f_text).found
    /\ f_ret = LoginRequiredDict(DefaultLoginUrl)

\* a fetch ended whose envelope carried an inner text that json.loads parsed
InnerParsed ==
    /\ f_pc = "done"
    /\ f_resp.t = "response"
    /\ f_resp.code = 200
    /\ f_resp.shape = "text"
    /\ f_resp.text.form = "json"

\* the parsed inner JSON
InnerDoc == f_resp.text.value

\* the inner JSON is an object with status login_required and a login_url field
DeclaresLogin ==
    /\ InnerDoc.ty = "dict"
    /\ Get(InnerDoc.v, "status", PyNone) = "login_required"
    /\ HasKey(InnerDoc.v, "login_url")

\* C13 as stated: a parsed inner JSON with status login_required and a
\* login_url field gives the login failure with exactly that URL, whatever
\* else the object holds.
C13_DeclaredLoginWins ==
    (InnerParsed /\ DeclaresLogin)
    => f_ret = LoginRequiredDict(Get(InnerDoc.v, "login_url", PyNone))

\* C13 amended: the same for a login_url that is not empty.
C13_DeclaredLoginWithUrlWins ==
    (InnerParsed /\ DeclaresLogin /\ Get(InnerDoc.v, "login_url", PyNone) \notin {PyNone, ""})
    => f_ret = LoginRequiredDict(Get(InnerDoc.v, "login_url", PyNone))

\* the login failure is returned although the category's field is there too
C13_Witness ==
    /\ InnerParsed
    /\ DeclaresLogin
    /\ f_tool \in ToolSet
    /\ Truthy(Get(InnerDoc.v, expected_key(f_tool), Dict({})))
    /\ Get(InnerDoc.v, "login_url", PyNone) \in Urls
    /\ f_ret = LoginRequiredDict(Get(InnerDoc.v, "login_url", PyNone))

NoDataDict(tool_name) == ErrorDict("no_data", <<"MCP returned no data for ", tool_name, ".">>)

\* the category's field is in the parsed inner JSON and is not empty
FieldPresent ==
    /\ InnerDoc.ty = "dict"
    /\ HasKey(InnerDoc.v, expected_key(f_tool))
    /\ Truthy(Get(InnerDoc.v, expected_key(f_tool), Dict({})))

\* C14 as stated: for the six categories, a parsed inner JSON that is not a
\* login response gives no-data when the category's field is absent or
\* empty, and otherwise exactly the value of that field.
C14_FieldOrNoData ==
    (InnerParsed /\ f_tool \in ToolSet /\ ~DeclaresLogin)
    => IF FieldPresent
       THEN f_ret = Get(InnerDoc.v, expected_key(f_tool), Dict({}))
       ELSE f_ret = NoDataDict(f_tool)

\* C14 amended: the same for an inner JSON that is an object and does not
\* declare login_required with a non-empty login_url.
C14_ObjectFieldOrNoData ==
    (/\ InnerParsed
     /\ f_tool \in ToolSet
     /\ InnerDoc.ty = "dict"
     /\ ~(DeclaresLogin /\ Get(InnerDoc.v, "login_url", PyNone) \notin {PyNone, ""}))
    => IF FieldPresent
       THEN f_ret = Get(InnerDoc.v, expected_key(f_tool), Dict({}))
       ELSE f_ret = NoDataDict(f_tool)

\* the field's value is handed back as the payload
C14_Witness ==
    /\ InnerParsed
    /\ f_tool \in ToolSet
    /\ ~DeclaresLogin
    /\ FieldPresent
    /\ f_ret = Get(InnerDoc.v, expected_key(f_tool), Dict({}))

-----------------------------------------------------------------------------
(* Claims about the extraction *)

\* the number of "{" minus the number of "}" in text[i..k]
Depth(text, i, k) ==
    Cardinality({p \in i..k : text[p] = "{"}) - Cardinality({p \in i..k : text[p] = "}"})

\* text[i..j] is a balanced {...} span with at most one level of nesting
IsBalancedSpan(text, i, j) ==
    /\ i < j
    /\ text[i] = "{"
    /\ text[j] = "}"
    /\ Depth(text, i, j) = 0
    /\ \A k \in i..(j - 1) : Depth(text, i, k) \in {1, 2}

HasSpan(text) == \E i, j \in 1..Len(text) : IsBalancedSpan(text, i, j)

\* the balanced span that starts first
FirstSpan(text) ==
    LET i == CHOOSE s \in 1..Len(text) :
                 /\ \E j \in 1..Len(text) : IsBalancedSpan(text, s, j)
                 /\ \A t \in 1..(s - 1) : \A j \in 1..Len(text) : ~IsBalancedSpan(text, t, j)
        j == CHOOSE e \in 1..Len(text) : IsBalancedSpan(text, i, e)
    IN SubSeq(text, i, j)

\* the result keeps the text in one of its diagnostic fields
Retains(res, text) ==
    \/ Get(res, "details", PyNone) = Concat(text)
    \/ Get(res, "gemini_response", PyNone) = Concat(text)

\* C15: the search selects the first balanced span with at most one nested
\* level, and when that span is JSON the workflow returns the object parsed
\* from exactly that span, whatever text stands before and after it.
C15_FirstBalancedSpanParsed ==
    (ModelAnswered /\ HasSpan(RawText))
    => /\ ReSearch(RawText).found
       /\ ReSearch(RawText).group = FirstSpan(RawText)
       /\ JsonLoads(FirstSpan(RawText)).ok
          => /\ w_out.ctl = "return"
             /\ w_out.result = Put(JsonLoads(FirstSpan(RawText)).val.v, "status", "success")

\* the commented object of the example is returned without its commentary
C15_Witness ==
    /\ ModelAnswered
    /\ w_gen.text = CommentedObject
    /\ w_out.result = {<<"a", Num(1)>>, <<"b", Dict({<<"c", Num(2)>>})>>,
                       <<"status", "success">>}

\* C16: when the matched span is not JSON the result is an error that keeps
\* both the whole response text and the span that failed to parse.
C16_MalformedKeepsTextAndSpan ==
    (ModelAnswered /\ HasSpan(RawText) /\ ~JsonLoads(FirstSpan(RawText)).ok)
    => /\ w_out.ctl = "return"
       /\ Get(w_out.result, "status", PyNone) = "error"
       /\ Retains(w_out.result, RawText)
       /\ Retains(w_out.result, FirstSpan(RawText))

\* C16, the part of it that the code keeps: when the matched span is not JSON
\* the result is an error with the parser's message and the whole response text.
C16_MalformedKeepsText ==
    (ModelAnswered /\ HasSpan(RawText) /\ ~JsonLoads(FirstSpan(RawText)).ok)
    => /\ w_out.ctl = "return"
       /\ Get(w_out.result, "status", PyNone) = "error"
       /\ Get(w_out.result, "details", PyNone) = DecodeErrorText
       /\ Get(w_out.result, "gemini_response", PyNone) = Concat(RawText)

\* C17: when the response text has no balanced span the result is an error
\* that keeps the whole response text.
C17_NoSpanKeepsText ==
    (ModelAnswered /\ ~HasSpan(RawText))
    => /\ w_out.ctl = "return"
       /\ Get(w_out.result, "status", PyNone) = "error"
       /\ Retains(w_out.result, RawText)

\* a text of words only went through the helper of the home-loan workflow
C17_Witness ==
    /\ ModelAnswered
    /\ w_name = "analyze_home_loan_affordability"
    /\ RawText = <<"x">>
    /\ Get(w_out.result, "status", PyNone) = "error"
    /\ Get(w_out.result, "gemini_response", PyNone) = "x"

\* C18: whenever the extraction fails, for want of a span or of JSON in it,
\* the workflow returns a result with status error.
C18_ExtractionFailureIsError ==
    (ModelAnswered /\ (~HasSpan(RawText) \/ ~JsonLoads(FirstSpan(RawText)).ok))
    => /\ w_out.ctl = "return"
       /\ Get(w_out.result, "status", PyNone) = "error"

\* a span that is not JSON made the home-loan workflow return an error
C18_Witness ==
    /\ ModelAnswered
    /\ w_name = "analyze_home_loan_affordability"
    /\ HasSpan(RawText)
    /\ ~JsonLoads(FirstSpan(RawText)).ok
    /\ Get(w_out.result, "status", PyNone) = "error"

-----------------------------------------------------------------------------
(* Claims about the login redirect *)

\* the aggregation of the workflow ended at a fetch that asked for login
ContextNeedsLogin ==
    /\ w_ctx.ctl = "return"
    /\ w_ctx.calls # <<>>
    /\ w_ctx.calls[Len(w_ctx.calls)] = "login_required"

\* C19: when the remote service requires login, each route answers 401 with
\* status login_required and the login URL the service gave.
C19_LoginAnswered401 ==
    (w_pc = "responded" /\ ContextNeedsLogin)
    => /\ r_resp.code = 401
       /\ Get(r_resp.body, "status", PyNone) = "login_required"
       /\ Get(r_resp.body, "login_url", PyNone) = Get(w_ctx.result, "login_url", PyNone)

\* C20: in each workflow, when the aggregation short-circuits with login
\* required and URL u, the workflow returns an error that carries login_url u.
C20_LoginUrlReachesCaller ==
    (WorkflowEnded /\ ContextNeedsLogin)
    => /\ w_out.ctl = "return"
       /\ Get(w_out.result, "status", PyNone) = "error"
       /\ Get(w_out.result, "login_url", PyNone) = Get(w_ctx.result, "login_url", PyNone)

-----------------------------------------------------------------------------
(* Claims about the order of aggregation and model invocation *)

\* the aggregation of the workflow returned a result with status success
ContextSucceeded ==
    w_ctx.ctl = "return" /\ Get(w_ctx.result, "status", PyNone) = "success"

\* C21: in each workflow the model is invoked only after the aggregation
\* returned status success; for every other aggregation result the workflow
\* returns an error and the model is not invoked.
C21_ModelOnlyAfterSuccess ==
    WorkflowEnded
    => /\ w_out.invoked => ContextSucceeded
       /\ (w_ctx.ctl = "return" /\ ~ContextSucceeded)
          => /\ w_out.ctl = "return"
             /\ Get(w_out.result, "status", PyNone) = "error"
             /\ ~w_out.invoked

-----------------------------------------------------------------------------
(* Claims about the content of the aggregation's result *)

\* C22: a success result of the aggregation holds, under each of the six
\* category keys, the non-empty payload that the fetch of that category
\* returned; no returned result shows an empty placeholder under such a key.
C22_SuccessHoldsFetchedPayloads ==
    pc = "returned"
    => /\ Status = "success"
          => /\ Len(calls) = Len(ToolNames)
             /\ \A i \in 1..Len(ToolNames) :
                   /\ calls[i].tool = ToolNames[i]
                   /\ calls[i].via = "payload"
                   /\ HasKey(result, tools_to_fetch[ToolNames[i]])
                   /\ Get(result, tools_to_fetch[ToolNames[i]], Dict({})) = calls[i].value
                   /\ Truthy(calls[i].value)
       /\ \A key \in ContextKeys :
             HasKey(result, key) => Truthy(Get(result, key, Dict({})))

\* a success result after six fetches, with a salary taken from the net worth
C22_Witness ==
    /\ pc = "returned"
    /\ Status = "success"
    /\ Len(calls) = Len(ToolNames)
    /\ Get(result, "salary", 0) > 0
    /\ \A key \in ContextKeys : Truthy(Get(result, key, Dict({})))

-----------------------------------------------------------------------------
(* Claims about the object that the extraction returns *)

HasOpen(text) == \E i \in 1..Len(text) : text[i] = "{"

\* the position of the first "{" of the text
FirstOpen(text) == CHOOSE i \in 1..Len(text) : text[i] = "{" /\ \A k \in 1..(i - 1) : text[k] # "{"

\* the first "{" opens an object that is closed again, at whatever depth
TopObjectBalanced(text) ==
    /\ HasOpen(text)
    /\ \E j \in FirstOpen(text)..Len(text) : Depth(text, FirstOpen(text), j) = 0

\* that object: from the first "{" to the "}" that closes it
TopObject(text) ==
    LET i == FirstOpen(text)
        j == CHOOSE e \in i..Len(text) :
                 /\ Depth(text, i, e) = 0
                 /\ \A k \in i..(e - 1) : Depth(text, i, k) # 0
    IN SubSeq(text, i, j)

\* C23: when the first "{" of the response text opens a balanced object, the
\* workflow either returns that whole object or returns an error; it never
\* returns an object parsed from a part of it.
C23_WholeObjectOrFailure ==
    (ModelAnswered /\ TopObjectBalanced(RawText))
    => /\ w_out.ctl = "return"
       /\ \/ Get(w_out.result, "status", PyNone) = "error"
          \/ /\ JsonLoads(TopObject(RawText)).ok
             /\ w_out.result = Put(JsonLoads(TopObject(RawText)).val.v, "status", "success")

====
